---- MODULE Spec2Model ----
(***************************************************************************)
(* Model of scripts/AlbedoMMFitting/render_utils.py: Burley/GGX shading    *)
(* and camera ray generation.                                              *)
(*                                                                         *)
(* The functions of the file are pure functions over floating-point        *)
(* tensors.  A tensor element is modelled as a floating-point number with  *)
(* Digits significant decimal digits, round-to-nearest-even after every    *)
(* operation, with infinities and NaN for division by zero and square      *)
(* roots of negative numbers.  The exponent is unbounded: overflow and     *)
(* underflow of the exponent range are not modelled.  Tensors are modelled *)
(* one batch point at a time (the functions act pointwise over the leading *)
(* axes), except in _compute_rays, whose index layout is modelled.         *)
(***************************************************************************)
EXTENDS Integers, Sequences, FiniteSets, TLC

VARIABLES fn, in, out, pc

vars == <<fn, in, out, pc>>

(***************************************************************************)
(* Floating-point numbers.                                                 *)
(***************************************************************************)

\* significant decimal digits kept by every tensor operation
Digits == 4

Base == 10 ^ Digits

MinMant == 10 ^ (Digits - 1)

\* a finite number is m * 10^e with MinMant <= |m| < Base, or m = 0, e = 0
Fin(m, e) == [k |-> "fin", m |-> m, e |-> e]

Zero == Fin(0, 0)

PosInf == [k |-> "inf", m |-> 1, e |-> 0]

NegInf == [k |-> "inf", m |-> -1, e |-> 0]

NaN == [k |-> "nan", m |-> 0, e |-> 0]

Inf(s) == IF s < 0 THEN NegInf ELSE PosInf

Abs(n) == IF n < 0 THEN -n ELSE n

Sgn(n) == IF n < 0 THEN -1 ELSE IF n > 0 THEN 1 ELSE 0

RECURSIVE NumDigits(_)
NumDigits(a) == IF a < 10 THEN 1 ELSE 1 + NumDigits(a \div 10)

\* the float nearest to n * 10^e (ties to even); sticky says that the exact
\* value lies strictly beyond n * 10^e, away from zero
Round(n, sticky, e) ==
    IF n = 0 THEN Zero
    ELSE LET a == Abs(n)
             nd == NumDigits(a)
         IN IF nd <= Digits
            THEN Fin(Sgn(n) * a * 10 ^ (Digits - nd), e - (Digits - nd))
            ELSE LET drop == nd - Digits
                     q == a \div (10 ^ drop)
                     r == a % (10 ^ drop)
                     half == 5 * 10 ^ (drop - 1)
                     up == r > half \/ (r = half /\ (sticky \/ q % 2 = 1))
                     q2 == IF up THEN q + 1 ELSE q
                 IN IF q2 = Base
                    THEN Fin(Sgn(n) * MinMant, e + drop + 1)
                    ELSE Fin(Sgn(n) * q2, e + drop)

\* an integer, and a decimal literal n * 10^e, as floats
FromInt(n) == Round(n, FALSE, 0)

Lit(n, e) == Round(n, FALSE, e)

IsFinite(x) == x.k = "fin"

IsNaN(x) == x.k = "nan"

IsNegative(x) == x.k # "nan" /\ x.m < 0

IsPositive(x) == x.k # "nan" /\ x.m > 0

IsZero(x) == x.k = "fin" /\ x.m = 0

Neg(x) == [x EXCEPT !.m = -x.m]

\* x + y
Add(x, y) ==
    IF x.k = "nan" \/ y.k = "nan" THEN NaN
    ELSE IF x.k = "inf" /\ y.k = "inf" THEN (IF x.m = y.m THEN x ELSE NaN)
    ELSE IF x.k = "inf" THEN x
    ELSE IF y.k = "inf" THEN y
    ELSE IF x.m = 0 THEN y
    ELSE IF y.m = 0 THEN x
    ELSE LET hi == IF x.e >= y.e THEN x ELSE y
             lo == IF x.e >= y.e THEN y ELSE x
             d == hi.e - lo.e
         IN IF d > Digits + 1 THEN hi
            ELSE Round(hi.m * 10 ^ d + lo.m, FALSE, lo.e)

Sub(x, y) == Add(x, Neg(y))

\* x * y
Mul(x, y) ==
    IF x.k = "nan" \/ y.k = "nan" THEN NaN
    ELSE IF x.k = "inf" \/ y.k = "inf"
         THEN (IF x.m = 0 \/ y.m = 0 THEN NaN ELSE Inf(x.m * y.m))
    ELSE Round(x.m * y.m, FALSE, x.e + y.e)

\* x / y
Div(x, y) ==
    IF x.k = "nan" \/ y.k = "nan" THEN NaN
    ELSE IF x.k = "inf" THEN (IF y.k = "inf" THEN NaN
                              ELSE Inf(x.m * (IF y.m < 0 THEN -1 ELSE 1)))
    ELSE IF y.k = "inf" THEN Zero
    ELSE IF y.m = 0 THEN (IF x.m = 0 THEN NaN ELSE Inf(x.m))
    ELSE IF x.m = 0 THEN Zero
    ELSE LET num == Abs(x.m) * 10 ^ (Digits + 1)
             den == Abs(y.m)
         IN Round(Sgn(x.m) * Sgn(y.m) * (num \div den), num % den # 0,
                  x.e - y.e - (Digits + 1))

RECURSIVE ISqrtIn(_, _, _)
\* the largest s in lo..hi with s * s <= n
ISqrtIn(n, lo, hi) ==
    IF lo = hi THEN lo
    ELSE LET mid == (lo + hi + 1) \div 2
         IN IF mid * mid <= n THEN ISqrtIn(n, mid, hi) ELSE ISqrtIn(n, lo, mid - 1)

\* sqrt(x)
Sqrt(x) ==
    IF x.k = "nan" THEN NaN
    ELSE IF x.m < 0 THEN NaN
    ELSE IF x.k = "inf" THEN x
    ELSE IF x.m = 0 THEN Zero
    ELSE LET odd == (x.e + Digits) % 2 = 1
             n == x.m * 10 ^ (IF odd THEN Digits + 1 ELSE Digits)
             e2 == (x.e - (IF odd THEN Digits + 1 ELSE Digits)) \div 2
             s == ISqrtIn(n, 1, 4 * Base)
             rest == n - s * s
         IN IF NumDigits(s) > Digits
            THEN Round(s, rest # 0, e2)
            ELSE Fin(IF rest > s THEN s + 1 ELSE s, e2)

\* x < y, x <= y, x > y, x >= y (false when either is NaN)
Lt(x, y) == IsNegative(Sub(x, y))

Gt(x, y) == IsPositive(Sub(x, y))

Le(x, y) == x.k # "nan" /\ y.k # "nan" /\ (x = y \/ Lt(x, y))

Ge(x, y) == Le(y, x)

One == FromInt(1)

Two == FromInt(2)


(***************************************************************************)
(* Tensor operations of the array library, one batch point at a time.  A   *)
(* vector is a sequence of floats.                                         *)
(***************************************************************************)

\* torch.clamp_min(x, lo)
clamp_min(x, lo) == IF IsNaN(x) \/ IsNaN(lo) THEN NaN ELSE IF Lt(x, lo) THEN lo ELSE x

\* F.relu(x)
relu(x) == IF IsNaN(x) THEN NaN ELSE IF IsNegative(x) THEN Zero ELSE x

\* x ** 2 and x ** 5
Pow2(x) == Mul(x, x)

Pow5(x) == Mul(Mul(Pow2(x), Pow2(x)), x)

RECURSIVE SumTo(_, _)
\* s[1] + ... + s[n], left to right
SumTo(s, n) == IF n = 0 THEN Zero ELSE IF n = 1 THEN s[1] ELSE Add(SumTo(s, n - 1), s[n])

\* tensor.sum(-1)
Sum(s) == SumTo(s, Len(s))

\* tensor1 * tensor2, -tensor, tensor1 + tensor2, tensor * scalar, tensor / scalar
VMul(a, b) == [i \in 1..Len(a) |-> Mul(a[i], b[i])]

VNeg(a) == [i \in 1..Len(a) |-> Neg(a[i])]

VAdd(a, b) == [i \in 1..Len(a) |-> Add(a[i], b[i])]

VScale(a, c) == [i \in 1..Len(a) |-> Mul(a[i], c)]

VDivS(a, c) == [i \in 1..Len(a) |-> Div(a[i], c)]

\* torch.linalg.norm(v, dim=-1)
Norm(v) == Sqrt(Sum(VMul(v, v)))

\* the eps of torch.nn.functional.normalize
NormalizeEps == Lit(1, -12)

\* torch.nn.functional.normalize(v, dim=-1): v / max(||v||, eps)
normalize(v) == VDivS(v, clamp_min(Norm(v), NormalizeEps))

\* numpy.pi
pi == Lit(3141592, -6)

(***************************************************************************)
(* render_utils.py                                                         *)
(***************************************************************************)

\* the default epsilon of dot
DotEpsilon == Lit(1, -6)

\* the element of a singleton set.  The locals of a function are bound as
\* The({result : local \in {value}, ...}): result with each local bound to its
\* value, the locals of an inner level depending on those of the outer ones
The(S) == CHOOSE r \in S : TRUE

\* dot clamping at the default epsilon instead of the one given
dot_default_epsilon(tensor1, tensor2, non_negative, epsilon) ==
    The({IF non_negative THEN clamp_min(x, DotEpsilon) ELSE x :
    x \in {Sum(VMul(tensor1, tensor2))}})

\* dot(tensor1, tensor2, dim=-1, non_negative, epsilon)
dot(tensor1, tensor2, non_negative, epsilon) ==
    The({IF non_negative THEN clamp_min(x, epsilon) ELSE x :
    x \in {Sum(VMul(tensor1, tensor2))}})

\* the default epsilon of _GGX_smith
GGXEpsilon == Lit(1, -10)

\* the denominator of D without its epsilon
D_den_without_epsilon(n_d_h_sq, alpha_sq, epsilon) ==
    Add(Mul(n_d_h_sq, Sub(alpha_sq, One)), One)

\* the denominator of D before squaring: n_d_h_sq * (alpha_sq - 1) + 1 + epsilon
D_den_of(n_d_h_sq, alpha_sq, epsilon) ==
    Add(Add(Mul(n_d_h_sq, Sub(alpha_sq, One)), One), epsilon)

\* D with its denominator not squared
D_without_square(alpha_sq, D_den) == Div(Div(alpha_sq, pi), D_den)

\* D = alpha_sq / pi / (...) ** 2
D_of(alpha_sq, D_den) == Div(Div(alpha_sq, pi), Pow2(D_den))

\* the argument of the square root of G_v and G_l
G_arg_of(alpha_sq, n_d_x_sq) == Add(One, Mul(alpha_sq, Sub(Div(One, n_d_x_sq), One)))

\* G_v and G_l: 2 / (sqrt(...) + 1)
G_of(G_arg) == Div(Two, Add(Sqrt(G_arg), One))

\* _GGX_smith(n_d_h, n_d_v, n_d_l, alpha, epsilon): its locals, D and G
GGX_smith(n_d_h, n_d_v, n_d_l, alpha, epsilon) ==
    The({The({The({
        [alpha |-> alpha, alpha_sq |-> alpha_sq, D_den |-> D_den,
         n_d_v_sq |-> n_d_v_sq, n_d_l_sq |-> n_d_l_sq,
         G_v_arg |-> G_v_arg, G_l_arg |-> G_l_arg, G_v |-> G_v, G_l |-> G_l,
         D |-> D, G |-> Mul(G_v, G_l)] :
            D \in {D_of(alpha_sq, D_den)},
            G_v \in {G_of(G_v_arg)},
            G_l \in {G_of(G_l_arg)}}) :
        D_den \in {D_den_of(n_d_h_sq, alpha_sq, epsilon)},
        G_v_arg \in {G_arg_of(alpha_sq, n_d_v_sq)},
        G_l_arg \in {G_arg_of(alpha_sq, n_d_l_sq)}}) :
    n_d_h_sq \in {Pow2(n_d_h)},
    alpha_sq \in {Pow2(alpha)},
    n_d_v_sq \in {Pow2(n_d_v)},
    n_d_l_sq \in {Pow2(n_d_l)}})

\* diff_l and diff_v: 1 + (F_D90 - 1) * ((1 - n_d_x) ** 5)
diff_of(F_D90, n_d_x) == Add(One, Mul(Sub(F_D90, One), Pow5(Sub(One, n_d_x))))

\* base_diffuse without the division by pi
base_diffuse_without_pi(diff_l, diff_v) == Mul(diff_l, diff_v)

\* base_diffuse = diff_l * diff_v / pi
base_diffuse_of(diff_l, diff_v) == Div(Mul(diff_l, diff_v), pi)

\* _diffuse(n_d_l, n_d_v, l_d_h, roughness): its locals and base_diffuse
diffuse(n_d_l, n_d_v, l_d_h, roughness) ==
    The({The({
        [F_D90 |-> F_D90, diff_l |-> diff_l, diff_v |-> diff_v,
         base_diffuse |-> base_diffuse_of(diff_l, diff_v)] :
            diff_l \in {diff_of(F_D90, n_d_l)},
            diff_v \in {diff_of(F_D90, n_d_v)}}) :
    F_D90 \in {Add(Mul(Mul(Two, roughness), Pow2(l_d_h)), Lit(5, -1))}})

\* alpha = 0.0001 + (roughness ** 2) * (1 - 0.0002)
Alpha(roughness) == Add(Lit(1, -4), Mul(Pow2(roughness), Lit(9998, -4)))

\* the half vector and the four cosines of _burley_shading
cosines(normal_vecs, incident_vecs, view_vecs) ==
    The({
        [half_vecs |-> half_vecs,
         h_n |-> dot(half_vecs, normal_vecs, TRUE, DotEpsilon),
         v_n |-> dot(view_vecs, normal_vecs, TRUE, DotEpsilon),
         l_n |-> dot(incident_vecs, normal_vecs, TRUE, DotEpsilon),
         l_h |-> dot(incident_vecs, half_vecs, TRUE, DotEpsilon)] :
    half_vecs \in {normalize(VAdd(incident_vecs, view_vecs))}})

\* F_metal = F0 + (1 - F0) * ((1 - l_h) ** 5)
F_metal(F0, l_h) ==
    The({[i \in 1..Len(F0) |-> Add(F0[i], Mul(Sub(One, F0[i]), fresnel))] :
    fresnel \in {Pow5(Sub(One, l_h))}})

\* r_specular = D_metal * G_metal * F_metal / (4 * v_n * l_n)
r_specular(D, G, F, v_n, l_n) ==
    The({[i \in 1..Len(F) |-> Div(Mul(DG, F[i]), den)] :
    DG \in {Mul(D, G)},
    den \in {Mul(Mul(FromInt(4), v_n), l_n)}})

\* _burley_shading(normal_vecs, incident_vecs, view_vecs, specular, roughness,
\* base_color): its arguments, its locals, r_diffuse and r_specular
burley_shading(normal_vecs, incident_vecs, view_vecs, specular, roughness, base_color) ==
    The({The({The({
        [normal_vecs |-> normal_vecs, incident_vecs |-> incident_vecs,
         view_vecs |-> view_vecs, half_vecs |-> c.half_vecs,
         h_n |-> c.h_n, v_n |-> c.v_n, l_n |-> c.l_n, l_h |-> c.l_h,
         alpha |-> alpha, ggx |-> ggx, D_metal |-> ggx.D, G_metal |-> ggx.G,
         F0 |-> F0, F_metal |-> F, diff |-> d,
         r_diffuse |-> VScale(base_color, d.base_diffuse),
         r_specular |-> r_specular(ggx.D, ggx.G, F, c.v_n, c.l_n)] :
            F \in {F_metal(F0, c.l_h)}}) :
        ggx \in {GGX_smith(c.h_n, c.v_n, c.l_n, alpha, GGXEpsilon)},
        d \in {diffuse(c.l_n, c.v_n, c.l_h, roughness)}}) :
    c \in {cosines(normal_vecs, incident_vecs, view_vecs)},
    alpha \in {Alpha(roughness)},
    F0 \in {VScale(specular, Lit(8, -2))}})

\* the mask without the test of the view direction
visible_mask_ignoring_view(falloff, forward_facing) == Gt(falloff, Zero)

\* visible_mask = (falloff > 0) & forward_facing
visible_mask_of(falloff, forward_facing) == Gt(falloff, Zero) /\ forward_facing

\* the light direction passed on without its sign flipped
incident_vecs_not_negated(light_dirs_) == light_dirs_

\* the incident_vecs and view_vecs passed to _burley_shading: -light_dirs_ and
\* -view_dirs
incident_vecs_of(light_dirs_) == VNeg(light_dirs_)

view_vecs_of(view_dirs) == VNeg(view_dirs)

\* _apply_shading_burley(normals, view_dirs, light_dirs, specular, roughness,
\* base_color): its locals, and the two returned terms
apply_shading_burley(normals0, view_dirs0, light_dirs, specular, roughness, base_color) ==
    The({The({The({The({
        [normals |-> normals, light_dirs_ |-> light_dirs_, view_dirs |-> view_dirs,
         forward_facing |-> forward_facing, visible_mask |-> visible_mask,
         falloff0 |-> falloff0, falloff |-> falloff, brdf |-> b,
         diffuse |-> VScale(b.r_diffuse, falloff),
         specular |-> VScale(b.r_specular, falloff)] :
                falloff \in {IF visible_mask THEN falloff0 ELSE Zero},
                b \in {burley_shading(normals, incident_vecs_of(light_dirs_),
                                      view_vecs_of(view_dirs),
                                      specular, roughness, base_color)}}) :
            visible_mask \in {visible_mask_of(falloff0, forward_facing)}}) :
        falloff0 \in {relu(Neg(Sum(VMul(normals, light_dirs_))))},
        forward_facing \in {Lt(dot(normals, view_dirs, FALSE, DotEpsilon), Zero)}}) :
    normals \in {normalize(normals0)},
    light_dirs_ \in {normalize(light_dirs)},
    view_dirs \in {normalize(view_dirs0)}})

\* torch.arange(n)
arange(n) == [i \in 1..n |-> i - 1]

\* torch.meshgrid(a, b) (indexing "ij"): two tensors of shape (len(a), len(b))
meshgrid(a, b) ==
    <<[i \in 1..Len(a) |-> [j \in 1..Len(b) |-> a[i]]],
      [i \in 1..Len(a) |-> [j \in 1..Len(b) |-> b[j]]]>>

\* the grid left as meshgrid returns it
transpose_omitted(t) == t

\* t.transpose(0, 1) of a two-dimensional tensor (a sequence of rows)
transpose(t) == [c \in 1..Len(t[1]) |-> [r \in 1..Len(t) |-> t[r][c]]]

\* t.flatten() of a two-dimensional tensor: row-major
flatten(t) ==
    LET cols == Len(t[1])
    IN [k \in 1..(Len(t) * cols) |-> t[((k - 1) \div cols) + 1][((k - 1) % cols) + 1]]

\* torch.reshape(t, (height, width)) of a flat tensor: row-major
reshape(t, height, width) ==
    [r \in 1..height |-> [c \in 1..width |-> t[(r - 1) * width + c]]]

\* torch.matmul of the 3x3 block m[:3, :3] and the column vector v
matmul(m, v) == [i \in 1..3 |-> Sum([j \in 1..3 |-> Mul(m[i][j], v[j])])]

\* camera_dirs of one camera and one pixel
camera_dir(x, y, K) ==
    <<Div(Add(Sub(FromInt(x), K[1][3]), Lit(5, -1)), K[1][1]),
      Div(Add(Sub(FromInt(y), K[2][3]), Lit(5, -1)), K[2][2]),
      One>>

\* the direction left unnormalized
unit_omitted(direction) == direction

\* directions / torch.linalg.norm(directions, dim=-1, keepdims=True)
unit(direction) == The({VDivS(direction, n) : n \in {Norm(direction)}})

\* the last row of the transform instead of its last column
origins_last_row(c2w) == [b \in 1..Len(c2w) |-> [i \in 1..3 |-> c2w[b][Len(c2w[b])][i]]]

\* origins = c2w[:, :3, -1]
origins_of(c2w) == [b \in 1..Len(c2w) |-> [i \in 1..3 |-> c2w[b][i][Len(c2w[b][i])]]]

\* _compute_rays(c2w, intrinsic, height, width, device): its locals, origins
\* and viewdirs
compute_rays(c2w, intrinsic, height, width) ==
    The({The({The({
        [x |-> x, y |-> y, directions |-> directions,
         origins |-> origins_of(c2w),
         viewdirs |-> [b \in 1..Len(c2w) |->
                         reshape([k \in 1..Len(x) |-> unit(directions[b][k])],
                                 height, width)]] :
            directions \in {[b \in 1..Len(c2w) |-> [k \in 1..Len(x) |->
                               matmul(c2w[b], camera_dir(x[k], y[k], intrinsic[b]))]]}}) :
        x \in {flatten(transpose(grid[1]))},
        y \in {flatten(transpose(grid[2]))}}) :
    grid \in {meshgrid(arange(width), arange(height))}})

(***************************************************************************)
(* The calls explored: every function of the file on bounded sets of       *)
(* inputs.                                                                 *)
(***************************************************************************)

\* integer components of the first operand of dot range over -MaxComp..MaxComp
MaxComp == 1

\* roughness values k / RoughSteps, k in 1..RoughSteps
RoughSteps == 4

\* image sizes 1..MaxHeight by 1..MaxWidth, batches of 1..MaxBatch cameras
MaxHeight == 2

MaxWidth == 3

MaxBatch == 2

IV(a, b, c) == <<FromInt(a), FromInt(b), FromInt(c)>>

Uniform(c) == <<c, c, c>>

Half == Lit(5, -1)

Tiny == Lit(1, -7)

\* roughness in (0, 1]
RoughGrid == {Div(FromInt(k), FromInt(RoughSteps)) : k \in 1..RoughSteps}
                 \cup {Lit(1, -2), Lit(1, -3)}

\* cosines in (0, 1]
CosGrid == {Lit(1, -6), Lit(1, -2), Half, Lit(8, -1), One}

DotCalls ==
    {[fn |-> "dot", in |-> [tensor1 |-> IV(a, b, c), tensor2 |-> t2,
                            non_negative |-> nn, epsilon |-> eps]] :
        a \in -MaxComp..MaxComp, b \in -MaxComp..MaxComp, c \in -MaxComp..MaxComp,
        t2 \in {IV(1, 0, 0), IV(1, 1, 1), <<FromInt(-1), Two, Half>>, <<Tiny, Zero, Zero>>},
        nn \in BOOLEAN, eps \in {DotEpsilon, Zero, Lit(15, -1)}}

GGXCalls ==
    {[fn |-> "_GGX_smith", in |-> [n_d_h |-> h, n_d_v |-> v, n_d_l |-> l,
                                   roughness |-> r, alpha |-> Alpha(r)]] :
        h \in CosGrid, v \in CosGrid, l \in CosGrid, r \in RoughGrid}

DiffuseCalls ==
    {[fn |-> "_diffuse", in |-> [n_d_l |-> l, n_d_v |-> v, l_d_h |-> h, roughness |-> r]] :
        l \in CosGrid, v \in CosGrid, h \in {Lit(1, -6), Half, One}, r \in {Half, One}}

\* well-formed materials: base_color >= 0, specular in [0, 1], roughness in (0, 1]
WellFormedMaterials ==
    {[specular |-> Uniform(s), roughness |-> r, base_color |-> c] :
        s \in {Zero, Half, One}, r \in RoughGrid,
        c \in {IV(1, 1, 1), <<Zero, Half, Two>>}}

\* materials outside the expected domain
IllFormedMaterials ==
    {[specular |-> IV(-1, 2, 0), roughness |-> Zero, base_color |-> IV(-1, 0, 2)],
     [specular |-> Uniform(Half), roughness |-> Two, base_color |-> IV(1, 1, 1)]}

SomeMaterials ==
    {m \in WellFormedMaterials :
        /\ m.roughness \in {One, Lit(1, -2)}
        /\ m.specular \in {Uniform(Zero), Uniform(One)}
        /\ m.base_color = <<Zero, Half, Two>>}
      \cup {[specular |-> Uniform(Half), roughness |-> Half, base_color |-> IV(1, 1, 1)]}
      \cup IllFormedMaterials

\* unit vectors with exactly representable components, surface to light/camera
BurleyDirs == {IV(0, 0, 1), <<Lit(6, -1), Zero, Lit(8, -1)>>,
               <<Lit(-6, -1), Zero, Lit(8, -1)>>, <<Zero, Lit(8, -1), Lit(6, -1)>>}

BurleyCalls ==
    {[fn |-> "_burley_shading",
      in |-> [normal_vecs |-> IV(0, 0, 1), incident_vecs |-> l, view_vecs |-> v,
              specular |-> Uniform(s), roughness |-> r, base_color |-> IV(1, 1, 1)]] :
        l \in BurleyDirs, v \in BurleyDirs, s \in {Zero, Half, One}, r \in RoughGrid}

ApplyNormals == {IV(0, 0, 1), IV(0, 0, 2), IV(0, 1, 1), IV(0, 0, 0)}

\* light to surface
ApplyLights == {IV(0, 0, -1), IV(0, -1, -1), IV(0, 0, 1), IV(1, 0, 0), IV(1, 0, -1),
                <<One, Zero, Neg(Tiny)>>}

\* camera to surface
ApplyViews == {IV(0, 0, -1), IV(0, -1, -1), IV(0, 0, 1), IV(1, 0, 0), IV(-1, 0, -1),
               <<One, Zero, Neg(Tiny)>>}

ApplyCall(n, v, l, m) ==
    [fn |-> "_apply_shading_burley",
     in |-> [normals |-> n, view_dirs |-> v, light_dirs |-> l, specular |-> m.specular,
             roughness |-> m.roughness, base_color |-> m.base_color]]

ApplyCalls ==
    {ApplyCall(n, v, l, m) :
        n \in ApplyNormals, v \in ApplyViews, l \in ApplyLights, m \in SomeMaterials}
      \cup {ApplyCall(IV(0, 0, 1), IV(0, 0, -1), IV(0, 0, -1), m) :
              m \in WellFormedMaterials \cup IllFormedMaterials}

IntMat(rows) == [i \in 1..Len(rows) |-> [j \in 1..Len(rows[i]) |-> FromInt(rows[i][j])]]

\* the rotation of angle atan(4/3) about the z axis, translation (1, 2, 3)
Rot345 == <<<<Lit(6, -1), Lit(-8, -1), Zero, One>>,
            <<Lit(8, -1), Lit(6, -1), Zero, Two>>,
            <<Zero, Zero, One, FromInt(3)>>>>

\* camera-to-world transforms: 3x4 and 4x4, of rotation block a rotation
C2Ws == {IntMat(<<<<1, 0, 0, 0>>, <<0, 1, 0, 0>>, <<0, 0, 1, 0>>>>),
         IntMat(<<<<1, 0, 0, 0>>, <<0, 1, 0, 0>>, <<0, 0, 1, 0>>, <<0, 0, 0, 1>>>>),
         IntMat(<<<<0, -1, 0, 4>>, <<1, 0, 0, 5>>, <<0, 0, 1, 6>>, <<7, 8, 9, 1>>>>),
         IntMat(<<<<1, 0, 0, -1>>, <<0, 0, -1, 0>>, <<0, 1, 0, 2>>>>),
         Rot345}

Pinhole(fx, fy, cx, cy) == <<<<fx, Zero, cx>>, <<Zero, fy, cy>>, <<Zero, Zero, One>>>>

Intrinsics == {Pinhole(One, One, Zero, Zero), Pinhole(Two, FromInt(4), One, Half)}

\* every transform with one intrinsic matrix, the two identity transforms with
\* both
Cameras ==
    {c \in [c2w : C2Ws, intrinsic : Intrinsics] :
        \/ c.intrinsic = Pinhole(One, One, Zero, Zero) /\ Len(c.c2w) = 4
        \/ c.intrinsic # Pinhole(One, One, Zero, Zero) /\ Len(c.c2w) = 3
        \/ \A i \in 1..3 : \A j \in 1..4 : c.c2w[i][j] = (IF i = j THEN One ELSE Zero)}

RECURSIVE Batches(_)
Batches(n) ==
    IF n = 0 THEN {<<>>}
    ELSE {Append(b, c) : b \in Batches(n - 1), c \in Cameras}

RaysCalls ==
    {[fn |-> "_compute_rays",
      in |-> [c2w |-> [i \in 1..Len(b) |-> b[i].c2w],
              intrinsic |-> [i \in 1..Len(b) |-> b[i].intrinsic],
              height |-> h, width |-> w]] :
        b \in UNION {Batches(n) : n \in 1..MaxBatch}, h \in 1..MaxHeight, w \in 1..MaxWidth}

Calls == DotCalls \cup GGXCalls \cup DiffuseCalls \cup BurleyCalls \cup ApplyCalls
           \cup RaysCalls

NoResult == [ret |-> "none"]

(***************************************************************************)
(* The state machine: a call is drawn, then the called function runs to    *)
(* its return.  out holds the function's locals and returned values.       *)
(***************************************************************************)

Init ==
    /\ \E c \in Calls : fn = c.fn /\ in = c.in
    /\ out = NoResult
    /\ pc = "called"

Call_dot ==
    /\ pc = "called"
    /\ fn = "dot"
    /\ out' = [ret |-> dot(in.tensor1, in.tensor2, in.non_negative, in.epsilon)]
    /\ pc' = "returned"
    /\ UNCHANGED <<fn, in>>

Call_GGX_smith ==
    /\ pc = "called"
    /\ fn = "_GGX_smith"
    /\ out' = GGX_smith(in.n_d_h, in.n_d_v, in.n_d_l, in.alpha, GGXEpsilon)
    /\ pc' = "returned"
    /\ UNCHANGED <<fn, in>>

Call_diffuse ==
    /\ pc = "called"
    /\ fn = "_diffuse"
    /\ out' = diffuse(in.n_d_l, in.n_d_v, in.l_d_h, in.roughness)
    /\ pc' = "returned"
    /\ UNCHANGED <<fn, in>>

Call_burley_shading ==
    /\ pc = "called"
    /\ fn = "_burley_shading"
    /\ out' = burley_shading(in.normal_vecs, in.incident_vecs, in.view_vecs,
                             in.specular, in.roughness, in.base_color)
    /\ pc' = "returned"
    /\ UNCHANGED <<fn, in>>

Call_apply_shading_burley ==
    /\ pc = "called"
    /\ fn = "_apply_shading_burley"
    /\ out' = apply_shading_burley(in.normals, in.view_dirs, in.light_dirs,
                                   in.specular, in.roughness, in.base_color)
    /\ pc' = "returned"
    /\ UNCHANGED <<fn, in>>

Call_compute_rays ==
    /\ pc = "called"
    /\ fn = "_compute_rays"
    /\ out' = compute_rays(in.c2w, in.intrinsic, in.height, in.width)
    /\ pc' = "returned"
    /\ UNCHANGED <<fn, in>>

Next ==
    \/ Call_dot
    \/ Call_GGX_smith
    \/ Call_diffuse
    \/ Call_burley_shading
    \/ Call_apply_shading_burley
    \/ Call_compute_rays

Spec == Init /\ [][Next]_vars

Returned(f) == pc = "returned" /\ fn = f

(***************************************************************************)
(* Properties.                                                             *)
(***************************************************************************)

AllZero(v) == \A i \in 1..Len(v) : v[i] = Zero

PlainSum(a, b) == Add(Add(Mul(a[1], b[1]), Mul(a[2], b[2])), Mul(a[3], b[3]))

C2_DotClamp ==
    Returned("dot") =>
        \A plain \in {PlainSum(in.tensor1, in.tensor2)} :
            IF in.non_negative
            THEN /\ out.ret = (IF Lt(plain, in.epsilon) THEN in.epsilon ELSE plain)
                 /\ Ge(out.ret, in.epsilon)
            ELSE out.ret = plain

\* a negative sum clamped to a positive epsilon
C2_Witness ==
    /\ Returned("dot")
    /\ in.non_negative
    /\ IsNegative(PlainSum(in.tensor1, in.tensor2))
    /\ IsPositive(in.epsilon)
    /\ out.ret = in.epsilon

\* C4: for cosines in (0, 1] and roughness in (0, 1], with alpha as computed by
\* _burley_shading, D and G of _GGX_smith are finite and non-negative: alpha is
\* in (0, 1], no denominator is zero and no square-root argument is negative.
C4_GGXFinite ==
    Returned("_GGX_smith") =>
        /\ in.alpha = Alpha(in.roughness)
        /\ IsPositive(in.alpha) /\ Le(in.alpha, One)
        /\ IsFinite(out.D_den) /\ ~IsZero(out.D_den) /\ ~IsZero(Pow2(out.D_den))
        /\ IsFinite(out.n_d_v_sq) /\ ~IsZero(out.n_d_v_sq)
        /\ IsFinite(out.n_d_l_sq) /\ ~IsZero(out.n_d_l_sq)
        /\ IsFinite(out.G_v_arg) /\ ~IsNegative(out.G_v_arg)
        /\ IsFinite(out.G_l_arg) /\ ~IsNegative(out.G_l_arg)
        /\ IsFinite(out.D) /\ ~IsNegative(out.D)
        /\ IsFinite(out.G) /\ ~IsNegative(out.G)

\* n.h = 1 and a small roughness: alpha_sq - 1 rounds to -1 and the
\* denominator of D is the epsilon alone
C4_Witness ==
    /\ Returned("_GGX_smith")
    /\ in.n_d_h = One
    /\ in.roughness = Lit(1, -3)
    /\ out.D_den = GGXEpsilon
    /\ IsFinite(out.D) /\ IsPositive(out.D)
    /\ IsFinite(out.G) /\ IsPositive(out.G)

HeadOn ==
    /\ in.normals = IV(0, 0, 1)
    /\ in.light_dirs = IV(0, 0, -1)
    /\ in.view_dirs = IV(0, 0, -1)

WellFormed ==
    /\ \A i \in 1..3 : ~IsNegative(in.base_color[i]) /\ IsFinite(in.base_color[i])
    /\ \A i \in 1..3 : Ge(in.specular[i], Zero) /\ Le(in.specular[i], One)
    /\ Gt(in.roughness, Zero) /\ Le(in.roughness, One)

\* C5: head-on (normal (0,0,1), light and view (0,0,-1)) the falloff is exactly
\* 1, the four cosines of the BRDF are 1, the Burley multiplier is exactly 1/pi
\* for every roughness, the diffuse term is the base color times 1/pi, and for
\* base color (1,1,1), specular (0.5,0.5,0.5), roughness 0.5 the diffuse term is
\* 1/pi and the specular term is finite and strictly positive.
C5_HeadOn ==
    (Returned("_apply_shading_burley") /\ HeadOn) =>
        /\ out.falloff = One
        /\ out.brdf.h_n = One /\ out.brdf.v_n = One
        /\ out.brdf.l_n = One /\ out.brdf.l_h = One
        /\ out.brdf.diff.base_diffuse = Div(One, pi)
        /\ \A i \in 1..3 : out.diffuse[i] = Mul(Div(One, pi), in.base_color[i])
        /\ (in.base_color = IV(1, 1, 1) /\ in.specular = Uniform(Half)
              /\ in.roughness = Half)
            => /\ \A i \in 1..3 : out.diffuse[i] = Div(One, pi)
               /\ \A i \in 1..3 : IsFinite(out.specular[i]) /\ IsPositive(out.specular[i])

\* the head-on scenario of the specification
C5_Witness ==
    /\ Returned("_apply_shading_burley")
    /\ HeadOn
    /\ in.base_color = IV(1, 1, 1)
    /\ in.specular = Uniform(Half)
    /\ in.roughness = Half
    /\ out.visible_mask
    /\ out.diffuse = Uniform(Div(One, pi))
    /\ IsPositive(out.specular[1])

\* what holds of the sign convention at every visible point: the BRDF is
\* called with the normalized normal and the negated normalized directions, its
\* light cosine is the falloff when that is at least the clamp epsilon, and
\* the returned terms are the BRDF terms times the falloff
SignConvention ==
    /\ out.brdf.normal_vecs = out.normals
    /\ out.brdf.incident_vecs = VNeg(out.light_dirs_)
    /\ out.brdf.view_vecs = VNeg(out.view_dirs)
    /\ out.falloff = Neg(PlainSum(out.normals, out.light_dirs_))
    /\ Ge(out.falloff, DotEpsilon) => out.brdf.l_n = out.falloff
    /\ IsPositive(Neg(PlainSum(out.normals, out.view_dirs)))
    /\ \A i \in 1..3 : out.diffuse[i] = Mul(out.brdf.r_diffuse[i], out.falloff)
    /\ \A i \in 1..3 : out.specular[i] = Mul(out.brdf.r_specular[i], out.falloff)

\* C7 as stated: at every visible point the view cosine of the BRDF equals
\* -(normal . view).
C7_Original ==
    (Returned("_apply_shading_burley") /\ out.visible_mask) =>
        /\ SignConvention
        /\ out.brdf.v_n = Neg(PlainSum(out.normals, out.view_dirs))

\* C7 amended: at every visible point the view cosine of the BRDF is
\* -(normal . view) clamped from below at the epsilon 1e-6, and equals
\* -(normal . view) when that is at least the epsilon.
C7_SignConvention ==
    (Returned("_apply_shading_burley") /\ out.visible_mask) =>
        /\ SignConvention
        /\ \A c \in {Neg(PlainSum(out.normals, out.view_dirs))} :
              out.brdf.v_n = (IF Lt(c, DotEpsilon) THEN DotEpsilon ELSE c)

\* a visible point whose light cosine is the falloff and whose view cosine is
\* -(normal . view), both above the epsilon and below 1
C7_Witness ==
    /\ Returned("_apply_shading_burley")
    /\ out.visible_mask
    /\ Gt(out.falloff, DotEpsilon) /\ Lt(out.falloff, One)
    /\ out.brdf.l_n = out.falloff
    /\ out.brdf.v_n = Neg(PlainSum(out.normals, out.view_dirs))
    /\ Lt(out.brdf.v_n, One)
    /\ ~AllZero(out.specular)

\* C9: for well-formed material parameters every channel of both terms
\* returned by _apply_shading_burley is >= 0.
C9_NonNegative ==
    (Returned("_apply_shading_burley") /\ WellFormed) =>
        /\ \A i \in 1..3 : Ge(out.diffuse[i], Zero)
        /\ \A i \in 1..3 : Ge(out.specular[i], Zero)

\* the magnitude of a value
Magnitude(x) == IF IsNegative(x) THEN Neg(x) ELSE x

\* r_specular of the call of the current state with another roughness and
\* another specular
SpecularAt(specular, roughness) ==
    burley_shading(in.normal_vecs, in.incident_vecs, in.view_vecs,
                   specular, roughness, in.base_color).r_specular

\* the specular term of the current state against the same geometry at every
\* greater roughness of the grid, and against roughness 1 with specular 0
SpecularShrinks ==
    /\ \A r2 \in RoughGrid : Gt(r2, in.roughness) =>
          \A s2 \in {SpecularAt(in.specular, r2)} : \A i \in 1..3 :
              /\ Le(Magnitude(s2[i]), Magnitude(out.r_specular[i]))
              /\ IsPositive(in.specular[i])
                    => Lt(Magnitude(s2[i]), Magnitude(out.r_specular[i]))
    /\ (in.specular = Uniform(One) /\ Lt(in.roughness, One)) =>
          \A s0 \in {SpecularAt(Uniform(Zero), One)} : \A i \in 1..3 :
              Lt(Magnitude(s0[i]), Magnitude(out.r_specular[i]))

\* the least roughness of the comparison: from it on alpha squared is well
\* above the rounding unit of 1, so that the denominator of D is not its
\* epsilon alone
ResolvedRoughness == Lit(2, -1)

IdentityRotation(m) ==
    \A i \in 1..3 : \A j \in 1..3 : m[i][j] = (IF i = j THEN One ELSE Zero)

PixelRay(x, y) == <<Add(FromInt(x), Half), Add(FromInt(y), Half), One>>

Normalized(v) == VDivS(v, Norm(v))

\* C3: with intrinsic fx = fy = 1, cx = cy = 0 and an identity transform,
\* viewdirs[b, y, x] is the normalized vector (x + 0.5, y + 0.5, 1) for every
\* column x in 0..width-1 and row y in 0..height-1; viewdirs has height rows
\* of width pixels for every batch element.
C3_PixelOrder ==
    Returned("_compute_rays") =>
        /\ Len(out.viewdirs) = Len(in.c2w)
        /\ \A b \in 1..Len(in.c2w) :
              /\ Len(out.viewdirs[b]) = in.height
              /\ \A y \in 1..in.height : Len(out.viewdirs[b][y]) = in.width
              /\ (in.intrinsic[b] = Pinhole(One, One, Zero, Zero)
                    /\ IdentityRotation(in.c2w[b]))
                  => \A y \in 0..(in.height - 1) : \A x \in 0..(in.width - 1) :
                        out.viewdirs[b][y + 1][x + 1] = Normalized(PixelRay(x, y))

\* an identity camera with more columns than rows, more than one of each,
\* whose pixel of row 1 and column 2 looks along the normalized (2.5, 1.5, 1)
C3_Witness ==
    /\ Returned("_compute_rays")
    /\ in.height > 1 /\ in.width > in.height
    /\ in.intrinsic[1] = Pinhole(One, One, Zero, Zero)
    /\ IdentityRotation(in.c2w[1])
    /\ out.viewdirs[1][2][3] = Normalized(<<Lit(25, -1), Lit(15, -1), One>>)
    /\ out.viewdirs[1][2][3] # Normalized(<<Lit(15, -1), Lit(25, -1), One>>)

\* the tolerance on the norm of a view direction: the distance from 1 to the
\* next value above it
UnitTol == Lit(1, -3)

WithoutRotation(c2w) ==
    [b \in 1..Len(c2w) |-> [i \in 1..Len(c2w[b]) |-> [j \in 1..Len(c2w[b][i]) |->
        IF i <= 3 /\ j <= 3 THEN (IF i = j THEN One ELSE Zero) ELSE c2w[b][i][j]]]]

\* C10: origins[b] is the first three rows of the last column of c2w[b], for
\* 3x4 and 4x4 transforms, and is the same for every intrinsic matrix, height,
\* width and rotation block.
C10_Origins ==
    Returned("_compute_rays") =>
        /\ Len(out.origins) = Len(in.c2w)
        /\ \A b \in 1..Len(in.c2w) :
              /\ Len(in.c2w[b]) \in {3, 4}
              /\ \A i \in 1..Len(in.c2w[b]) : Len(in.c2w[b][i]) = 4
              /\ out.origins[b] = <<in.c2w[b][1][4], in.c2w[b][2][4], in.c2w[b][3][4]>>
        /\ \A K \in Intrinsics :
              compute_rays(in.c2w, [b \in 1..Len(in.c2w) |-> K], 1, 1).origins
                  = out.origins
        /\ compute_rays(WithoutRotation(in.c2w), in.intrinsic, 1, 1).origins
              = out.origins

\* a batch of a 4x4 transform whose last row is not its translation and a 3x4
\* transform, of origins (4, 5, 6) and (-1, 0, 2)
C10_Witness ==
    /\ Returned("_compute_rays")
    /\ Len(in.c2w) = 2
    /\ Len(in.c2w[1]) = 4 /\ Len(in.c2w[2]) = 3
    /\ in.c2w[1][4] = <<FromInt(7), FromInt(8), FromInt(9), One>>
    /\ out.origins = <<IV(4, 5, 6), IV(-1, 0, 2)>>
    /\ in.height > 1 /\ in.width > 1
====
